---------------------------- MODULE Spec2Model ----------------------------
(***************************************************************************)
(* Model of the todo list application of todo_frontend/src/App.js: the    *)
(* React component App, its event handlers, its persist effect and the    *)
(* two localStorage helpers loadTodosFromStorage / saveTodosToStorage.    *)
(*                                                                         *)
(* JavaScript values are tagged records (field t is the typeof-like tag), *)
(* JavaScript strings are sequences of one-character strings, and the     *)
(* content of the localStorage slot is a separate datatype (field raw /   *)
(* field j) standing for the stored string, so that JSON.stringify and    *)
(* JSON.parse are conversions between two representations.                 *)
(***************************************************************************)
EXTENDS Integers, Sequences, FiniteSets, TLC

(***************************************************************************)
(* Bounds of the model.                                                    *)
(***************************************************************************)
MaxTodos == 3          \* longest in-memory list explored
MaxStored == 2         \* longest sequence found in the slot at first mount
MaxGen == 2            \* number of ids the generator hands out
MaxTime == 1           \* Date.now() returns a value of 1..MaxTime
MaxFailStreak == 1     \* number of localStorage.setItem calls in a row that throw

(***************************************************************************)
(* JavaScript values.                                                      *)
(***************************************************************************)
Undefined == [t |-> "undefined"]
Null == [t |-> "null"]
Bool(b) == [t |-> "boolean", b |-> b]
Num(n) == [t |-> "number", n |-> n]
Infinity == [t |-> "number", inf |-> TRUE]
NegInfinity == [t |-> "number", inf |-> TRUE, neg |-> TRUE]
\* a finite number that is no integer of this language: mant * 10^exp, where
\* mant is not divisible by 10
Sci(c, x) == [t |-> "number", mant |-> c, exp |-> x]
Str(s) == [t |-> "string", s |-> s]
Arr(a) == [t |-> "array", a |-> a]
Obj(f) == [t |-> "object", f |-> f]

EmptyStr == Str(<< >>)

\* typeof v
TypeOf(v) ==
  CASE v.t = "null" -> "object"
    [] v.t = "array" -> "object"
    [] OTHER -> v.t

\* ToBoolean(v), for the values the code tests with && and !
Truthy(v) ==
  CASE v.t = "undefined" -> FALSE
    [] v.t = "null" -> FALSE
    [] v.t = "boolean" -> v.b
    [] v.t = "number" -> v # Num(0)
    [] v.t = "string" -> Len(v.s) > 0
    [] OTHER -> TRUE

\* v[key] for a property name key
Get(v, key) ==
  IF v.t = "object" /\ key \in DOMAIN v.f THEN v.f[key] ELSE Undefined

(***************************************************************************)
(* String.prototype.trim on sequences of characters.  A character is a    *)
(* one-character string; a code point that cannot be written in a string   *)
(* of this language is written by its name, "U+00A0".  trim removes the     *)
(* WhiteSpace and LineTerminator code points of ECMAScript.                 *)
(***************************************************************************)
WhiteSpace ==
  {"\t", "\n", "U+000B", "\f", "\r", " ", "U+00A0", "U+1680",
   "U+2000", "U+2001", "U+2002", "U+2003", "U+2004", "U+2005", "U+2006",
   "U+2007", "U+2008", "U+2009", "U+200A", "U+2028", "U+2029", "U+202F",
   "U+205F", "U+3000", "U+FEFF"}

IsSpace(c) == c \in WhiteSpace

RECURSIVE TrimStart(_)
TrimStart(s) ==
  IF s = << >> THEN << >>
  ELSE IF IsSpace(Head(s)) THEN TrimStart(Tail(s)) ELSE s

RECURSIVE TrimEnd(_)
TrimEnd(s) ==
  IF s = << >> THEN << >>
  ELSE IF IsSpace(s[Len(s)]) THEN TrimEnd(SubSeq(s, 1, Len(s) - 1)) ELSE s

Trim(v) == Str(TrimEnd(TrimStart(v.s)))

(***************************************************************************)
(* The stored string.  getItem yields Missing (null) or a string; a string *)
(* is empty, not JSON at all, or a JSON text given by its syntax tree.     *)
(* A number literal is given by its value mant * 10^exp: 1.5 is            *)
(* JNumber(15, -1), and 1761700000000, too long for an integer of this     *)
(* language, is JNumber(17617, 8).                                         *)
(***************************************************************************)
Missing == [raw |-> "missing"]
EmptyText == [raw |-> "empty"]
Garbage == [raw |-> "garbage"]
Doc(d) == [raw |-> "json", doc |-> d]

JNull == [j |-> "null"]
JBool(b) == [j |-> "boolean", b |-> b]
JNumber(m, e) == [j |-> "number", mant |-> m, exp |-> e]
JString(s) == [j |-> "string", s |-> s]
JArray(items) == [j |-> "array", items |-> items]
JObject(members) == [j |-> "object", members |-> members]

RECURSIVE Pow10(_)
Pow10(e) == IF e <= 0 THEN 1 ELSE 10 * Pow10(e - 1)

Abs(n) == IF n < 0 THEN 0 - n ELSE n

RECURSIVE NumDigits(_)
NumDigits(n) == IF n < 10 THEN 1 ELSE 1 + NumDigits(n \div 10)

\* mant * 10^exp with the trailing zeros of mant moved into exp (mant # 0)
RECURSIVE Canonical(_, _)
Canonical(m, e) ==
  IF m % 10 = 0 THEN Canonical(m \div 10, e + 1) ELSE [mant |-> m, exp |-> e]

(***************************************************************************)
(* Natural numbers of any size, for the rounding a double does below       *)
(* 2^-1021: a sequence of decimal digits, the lowest first, the highest     *)
(* not 0; zero is the empty sequence.                                       *)
(***************************************************************************)
RECURSIVE BigOf(_)
BigOf(n) == IF n = 0 THEN << >> ELSE <<n % 10>> \o BigOf(n \div 10)

RECURSIVE BigToInt(_)
BigToInt(b) == IF b = << >> THEN 0 ELSE Head(b) + 10 * BigToInt(Tail(b))

BigDigit(b, i) == IF i <= Len(b) THEN b[i] ELSE 0

\* one position of a sum: its digit and the carry into the next position
DigitOf(t) == [digits |-> <<t % 10>>, carry |-> t \div 10]

Glued(low, high) ==
  [digits |-> low.digits \o high.digits, carry |-> high.carry]

\* the positions lo..hi of a sum with carries, terms[i] being what position i
\* holds before the carry into it; the range is halved to keep the nesting
\* shallow
RECURSIVE Carried(_, _, _, _)
Carried(terms, lo, hi, carry) ==
  IF lo = hi THEN DigitOf(terms[lo] + carry)
  ELSE LET mid == (lo + hi) \div 2
           After(low) == Glued(low, Carried(terms, mid + 1, hi, low.carry))
       IN After(Carried(terms, lo, mid, carry))

WithCarry(r) == r.digits \o BigOf(r.carry)

\* b * m, for m up to 10^8
BigTimes(b, m) ==
  IF b = << >> \/ m = 0 THEN << >>
  ELSE WithCarry(Carried([i \in 1..Len(b) |-> b[i] * m], 1, Len(b), 0))

BigAdd(a, b) ==
  IF a = << >> THEN b
  ELSE IF b = << >> THEN a
  ELSE LET len == IF Len(a) > Len(b) THEN Len(a) ELSE Len(b)
       IN WithCarry(Carried([i \in 1..len |-> BigDigit(a, i) + BigDigit(b, i)],
                            1, len, 0))

\* b * 10^n
BigShift(b, n) == IF b = << >> THEN << >> ELSE [i \in 1..n |-> 0] \o b

\* a times the digits lo..hi of b, in place; eight digits of b at a time
RECURSIVE BigMulFrom(_, _, _, _)
BigMulFrom(a, b, lo, hi) ==
  IF hi - lo < 8
    THEN BigShift(BigTimes(a, BigToInt(SubSeq(b, lo, hi))), lo - 1)
  ELSE LET mid == (lo + hi) \div 2
       IN BigAdd(BigMulFrom(a, b, lo, mid), BigMulFrom(a, b, mid + 1, hi))

BigMul(a, b) ==
  IF a = << >> \/ b = << >> THEN << >> ELSE BigMulFrom(a, b, 1, Len(b))

RECURSIVE IntPow(_, _)
IntPow(b, e) == IF e = 0 THEN 1 ELSE b * IntPow(b, e - 1)

\* b * base^e, by factors base^span at most (base^span <= 10^8)
RECURSIVE BigTimesPow(_, _, _, _)
BigTimesPow(b, base, e, span) ==
  IF b = << >> THEN << >>
  ELSE IF e <= span THEN BigTimes(b, IntPow(base, e))
  ELSE BigTimesPow(BigTimesPow(b, base, e \div 2, span),
                   base, e - (e \div 2), span)

\* b / 10^q rounded to a whole number, half to even (q >= 1)
BigRound(b, q) ==
  IF q > Len(b) THEN << >>
  ELSE LET top == SubSeq(b, q + 1, Len(b))
           next == b[q]
           rest == \E i \in 1..(q - 1) : b[i] # 0
           odd == top # << >> /\ top[1] % 2 = 1
       IN IF next > 5 \/ (next = 5 /\ (rest \/ odd))
            THEN BigAdd(top, <<1>>)
            ELSE top

(***************************************************************************)
(* Below 2^-1021 the doubles are the multiples k * 2^-1074.                *)
(*  - A literal c * 10^e (e < 0) reads as the multiple nearest to it:      *)
(*    k is c * 2^1074 / 10^-e rounded, half to even.                       *)
(*  - k * 2^-1074 is k * 5^1074 / 10^1074, and JSON.stringify writes it    *)
(*    with the fewest digits that read back as k, those nearest to it:     *)
(*    its n highest digits, rounded, for the first n that reads as k.      *)
(***************************************************************************)
TwoTo1074 == BigTimesPow(<<1>>, 2, 1074, 26)
FiveTo1074 == BigTimesPow(<<1>>, 5, 1074, 11)

\* k for the literal with digits c and exponent e
NearestStep(c, e) == BigRound(BigMul(TwoTo1074, c), 0 - e)

\* the fewest digits of w / 10^1074 = k * 2^-1074 that read as k, from n on
RECURSIVE ShortestFrom(_, _, _)
ShortestFrom(k, w, n) ==
  LET Tried(c, e) ==
        IF n >= 17 \/ NearestStep(c, e) = k THEN [digits |-> c, exp |-> e]
        ELSE ShortestFrom(k, w, n + 1)
  IN Tried(BigRound(w, Len(w) - n), Len(w) - n - 1074)

\* the double k * 2^-1074 as Sci, or Num(0)
StepValue(k) ==
  LET Written(s) ==
        LET v == Canonical(BigToInt(s.digits), s.exp) IN Sci(v.mant, v.exp)
  IN IF k = << >> THEN Num(0)
     ELSE Written(ShortestFrom(k, BigMul(FiveTo1074, k), 1))

\* v or -v, v positive or zero
Signed(v, neg) == IF neg /\ v # Num(0) THEN Sci(0 - v.mant, v.exp) ELSE v

\* the double nearest to a * 10^x, for a * 10^x < 4 * 10^-308
Subnormal(a, x) == StepValue(NearestStep(BigOf(a), x))

\* The double a number literal reads as.  With a the digits of the literal
\* and mag the position of its first digit, the value is 0.a * 10^mag.
\*  - at or above 1.797693134862315808 * 10^308 it rounds to an infinity;
\*  - at or below 2.4703282292 * 10^-324 it rounds to zero (a negative zero
\*    is written as 0 by JSON.stringify and is === 0: it is Num(0) here);
\*  - below 4 * 10^-308 it rounds to a multiple of 2^-1074;
\*  - in between the literal has at most 10 digits, which a double keeps,
\*    so the value is the number written.
ToNumber(m, e) ==
  IF m = 0 THEN Num(0)
  ELSE LET k == Canonical(m, e)
           a == Abs(k.mant)
           nd == NumDigits(a)
           mag == nd + k.exp
           lead == IF nd = 10 THEN a \div 10 ELSE a * Pow10(9 - nd)
           over == \/ mag > 309
                   \/ /\ mag = 309
                      /\ IF nd = 10 THEN a > 1797693134 ELSE lead > 179769313
           under == mag < -323 \/ (mag = -323 /\ lead <= 247032822)
           tiny == mag < -307 \/ (mag = -307 /\ lead < 400000000)
           sub == Subnormal(a, k.exp)
           whole == /\ k.exp >= 0
                    /\ k.exp <= 9
                    /\ a <= 2147483647 \div Pow10(k.exp)
       IN IF over THEN (IF m < 0 THEN NegInfinity ELSE Infinity)
          ELSE IF under THEN Num(0)
          ELSE IF tiny THEN Signed(sub, m < 0)
          ELSE IF whole THEN Num(k.mant * Pow10(k.exp))
          ELSE Sci(k.mant, k.exp)

\* JSON.parse of a JSON text
RECURSIVE JSONparse(_)
JSONparse(d) ==
  CASE d.j = "null" -> Null
    [] d.j = "boolean" -> Bool(d.b)
    [] d.j = "number" -> ToNumber(d.mant, d.exp)
    [] d.j = "string" -> Str(d.s)
    [] d.j = "array" -> Arr([i \in 1..Len(d.items) |-> JSONparse(d.items[i])])
    [] d.j = "object" ->
         Obj([k \in DOMAIN d.members |-> JSONparse(d.members[k])])

\* JSON.stringify: non-finite numbers and undefined array entries are written
\* as null, undefined properties are left out
RECURSIVE JSONstringify(_)
JSONstringify(v) ==
  CASE v.t = "null" -> JNull
    [] v.t = "undefined" -> JNull
    [] v.t = "boolean" -> JBool(v.b)
    [] v.t = "number" ->
         IF "inf" \in DOMAIN v THEN JNull
         ELSE IF "n" \in DOMAIN v THEN JNumber(v.n, 0)
         ELSE JNumber(v.mant, v.exp)
    [] v.t = "string" -> JString(v.s)
    [] v.t = "array" -> JArray([i \in 1..Len(v.a) |-> JSONstringify(v.a[i])])
    [] v.t = "object" ->
         JObject([k \in {x \in DOMAIN v.f : v.f[x] # Undefined} |->
                    JSONstringify(v.f[k])])

\* the todo list as the JavaScript array of objects it is
TodosValue(list) == Arr([i \in 1..Len(list) |-> Obj(list[i])])

(***************************************************************************)
(* cryptoRandomId: the n-th identifier the generator produces.  Both the   *)
(* randomUUID branch and the timestamp/random fallback return a string     *)
(* that was not returned before.                                           *)
(***************************************************************************)
Digits == <<"0", "1", "2", "3", "4", "5", "6", "7", "8", "9">>

cryptoRandomId(n) == Str(<<"u", Digits[n + 1]>>)

(***************************************************************************)
(* loadTodosFromStorage.  readOk is FALSE when localStorage.getItem        *)
(* throws, n0 is the number of ids generated so far, now[i] is the value   *)
(* Date.now() returns for the i-th entry that passes the first filter.     *)
(* The result is a completion: threw tells whether the call raised to its  *)
(* caller, val is the returned list.                                       *)
(***************************************************************************)
IsRecordEntry(t) == Truthy(t) /\ TypeOf(t) = "object"

NeedsId(t) == TypeOf(Get(t, "id")) # "string"

\* number of cryptoRandomId calls made for the first k entries of seq
RECURSIVE IdsUsed(_, _)
IdsUsed(seq, k) ==
  IF k = 0 THEN 0
  ELSE IdsUsed(seq, k - 1) + (IF NeedsId(seq[k]) THEN 1 ELSE 0)

\* mutant: every entry is stamped with the current time
Normalize_StampsAll(seq, n0, now) ==
  [i \in 1..Len(seq) |->
     [id |-> IF NeedsId(seq[i]) THEN cryptoRandomId(n0 + IdsUsed(seq, i))
             ELSE Get(seq[i], "id"),
      text |-> IF TypeOf(Get(seq[i], "text")) = "string"
               THEN Get(seq[i], "text") ELSE EmptyStr,
      createdAt |-> Num(now[i])]]

Normalize(seq, n0, now) ==
  [i \in 1..Len(seq) |->
     [id |-> IF NeedsId(seq[i]) THEN cryptoRandomId(n0 + IdsUsed(seq, i))
             ELSE Get(seq[i], "id"),
      text |-> IF TypeOf(Get(seq[i], "text")) = "string"
               THEN Get(seq[i], "text") ELSE EmptyStr,
      createdAt |-> IF TypeOf(Get(seq[i], "createdAt")) = "number"
                    THEN Get(seq[i], "createdAt") ELSE Num(now[i])]]

HasText(t) == Len(Trim(t.text).s) > 0

Returned(list) == [threw |-> FALSE, val |-> list]
Thrown == [threw |-> TRUE, val |-> << >>]

\* the body of the try block
LoadTry(stored, readOk, n0, now) ==
  IF ~readOk THEN Thrown
  ELSE IF stored = Missing \/ stored = EmptyText THEN Returned(<< >>)
  ELSE IF stored = Garbage THEN Thrown
  ELSE LET parsed == JSONparse(stored.doc) IN
       IF parsed.t # "array" THEN Returned(<< >>)
       ELSE Returned(SelectSeq(Normalize(SelectSeq(parsed.a, IsRecordEntry),
                                         n0, now),
                               HasText))

\* mutant: the try block without its catch
loadTodosFromStorage_NoCatch(stored, readOk, n0, now) ==
  LoadTry(stored, readOk, n0, now)

loadTodosFromStorage(stored, readOk, n0, now) ==
  LET r == LoadTry(stored, readOk, n0, now) IN
  IF r.threw THEN Returned(<< >>) ELSE r

\* number of ids the generator handed out during that load
LoadIdsUsed(stored, readOk) ==
  IF ~readOk \/ stored.raw # "json" THEN 0
  ELSE LET parsed == JSONparse(stored.doc) IN
       IF parsed.t # "array" THEN 0
       ELSE LET seq == SelectSeq(parsed.a, IsRecordEntry) IN
            IdsUsed(seq, Len(seq))

\* mutant: an empty list is not written
saveTodosToStorage_SkipsEmpty(stored, list, writeOk) ==
  IF writeOk /\ list # << >>
  THEN Doc(JSONstringify(TodosValue(list))) ELSE stored

(***************************************************************************)
(* saveTodosToStorage: the content of the slot after the call.  writeOk is *)
(* FALSE when localStorage.setItem throws; the catch block ignores it.     *)
(***************************************************************************)
saveTodosToStorage(stored, list, writeOk) ==
  IF writeOk THEN Doc(JSONstringify(TodosValue(list))) ELSE stored

(***************************************************************************)
(* What the model draws its inputs from.                                   *)
(***************************************************************************)
\* the strings a user types into the add field or the edit field: one that
\* is blank and one with whitespace on both sides of its text
InputStrings == {<<"\t">>, <<"\n", "y", " ">>}

Times == 1..MaxTime

\* the ids a handler is called with: those of the items of the list, and
\* one that no item has
NoSuchId == Str(<<"z">>)

TargetIds(list) == {list[i].id : i \in 1..Len(list)} \cup {NoSuchId}

\* JSON texts of the entries found in a stored sequence.  Absent marks a
\* property the object does not have.
Absent == [j |-> "absent"]

MakeObject(i, x, c) ==
  LET m == [k \in {"id", "text", "createdAt"} |->
              IF k = "id" THEN i ELSE IF k = "text" THEN x ELSE c]
  IN JObject([k \in {y \in DOMAIN m : m[y] # Absent} |-> m[k]])

\* a well-formed entry; one whose id is no string and that has no createdAt;
\* entries whose text has leading whitespace, is blank, or is missing; one
\* whose createdAt is written as 1e999
ObjectEntries ==
  {MakeObject(JString(<<"a">>), JString(<<"x">>), JNumber(5, 0)),
   MakeObject(JNumber(7, 0), JString(<<"x">>), Absent),
   MakeObject(JString(<<"a">>), JString(<<" ", "x">>), JNumber(5, 0)),
   MakeObject(JString(<<"a">>), JString(<<"U+00A0">>), JNumber(5, 0)),
   MakeObject(JString(<<"a">>), Absent, JNumber(5, 0)),
   MakeObject(JString(<<"a">>), JString(<<"x">>), JNumber(1, 999))}

NonObjectEntries == {JNull, JNumber(5, 0), JString(<<"x">>)}

EntryPool == ObjectEntries \cup NonObjectEntries \cup {JArray(<< >>)}

StoredSequences == UNION {[1..n -> EntryPool] : n \in 0..MaxStored}

NonSequenceDocs ==
  {JNull, JBool(TRUE), JNumber(5, 0), JString(<<"x">>),
   MakeObject(JString(<<"a">>), JString(<<"x">>), JNumber(5, 0))}

InitialSlots ==
  {Missing, EmptyText, Garbage}
    \cup {Doc(d) : d \in NonSequenceDocs}
    \cup {Doc(JArray(s)) : s \in StoredSequences}

(***************************************************************************)
(* State.                                                                  *)
(***************************************************************************)
VARIABLES
  slot,          \* localStorage content under STORAGE_KEY
  mounted,       \* the component rendered (its initializers did not throw)
  theme,         \* useState('light')
  todos,         \* useState(() => loadTodosFromStorage())
  newText,       \* useState('')
  editingId,     \* useState(null)
  editingText,   \* useState('')
  nextId,        \* number of ids cryptoRandomId has produced
  failStreak,    \* number of setItem calls that threw since the last that did not
  effectPending, \* the persist effect of the first render has not run yet
  last           \* history: the latest handler and its argument

vars == <<slot, mounted, theme, todos, newText, editingId, editingText,
          nextId, failStreak, effectPending, last>>

ReadThrew == [raw |-> "threw"]

\* arg is the id a handler was called with, or what getItem gave to the
\* first render ("render", and "mount" once its persist effect has run);
\* for startEdit it also tells which id was the edit target before the call,
\* for cancelEdit it is that earlier edit target
Called(op, arg) == [op |-> op, arg |-> arg]

(***************************************************************************)
(* Mounting App.  The first render runs the useState initializers (line    *)
(* 51-57) and is committed; React runs the persist effect of that render    *)
(* (line 68-70) afterwards, and before it handles any event.                *)
(***************************************************************************)
MountState(stored, n0, readOk, now) ==
  LET r == loadTodosFromStorage(stored, readOk, n0, now) IN
  [mounted |-> ~r.threw,
   effectPending |-> ~r.threw,
   theme |-> "light",
   todos |-> r.val,
   newText |-> EmptyStr,
   editingId |-> Null,
   editingText |-> EmptyStr,
   nextId |-> n0 + LoadIdsUsed(stored, readOk),
   last |-> Called("render", IF readOk THEN stored ELSE ReadThrew)]

MountChoice(stored, n0, readOk) == n0 + LoadIdsUsed(stored, readOk) <= MaxGen

\* the component holds the state m of its first render
MountedAs(m) ==
  /\ mounted = m.mounted
  /\ effectPending = m.effectPending
  /\ theme = m.theme
  /\ todos = m.todos
  /\ newText = m.newText
  /\ editingId = m.editingId
  /\ editingText = m.editingText
  /\ nextId = m.nextId
  /\ last = m.last

\* the component is built again and holds the state m of its first render
RemountedAs(m) ==
  /\ mounted' = m.mounted
  /\ effectPending' = m.effectPending
  /\ theme' = m.theme
  /\ todos' = m.todos
  /\ newText' = m.newText
  /\ editingId' = m.editingId
  /\ editingText' = m.editingText
  /\ nextId' = m.nextId
  /\ last' = m.last

Init ==
  \E stored \in InitialSlots, readOk \in BOOLEAN,
     now \in [1..MaxStored -> Times] :
    /\ MountChoice(stored, 0, readOk)
    /\ slot = stored
    /\ failStreak = 0
    /\ MountedAs(MountState(stored, 0, readOk, now))

\* reloading the page: the component is built again from the slot.  A page
\* left before the persist effect of its first render ran never runs it.
Reload ==
  \E readOk \in BOOLEAN, now \in [1..MaxTodos -> Times] :
    /\ MountChoice(slot, nextId, readOk)
    /\ RemountedAs(MountState(slot, nextId, readOk, now))
    /\ UNCHANGED <<slot, failStreak>>

(***************************************************************************)
(* The persist effect, useEffect(() => saveTodosToStorage(todos), [todos]) *)
(* which React runs after every render that follows a setTodos call.       *)
(***************************************************************************)
\* mutant: a write that threw is made again and goes through
PersistEffect_Retries(list, writeOk) ==
  /\ writeOk \/ failStreak < MaxFailStreak
  /\ slot' = saveTodosToStorage(slot, list, TRUE)
  /\ failStreak' = IF writeOk THEN 0 ELSE failStreak + 1

PersistEffect(list, writeOk) ==
  /\ writeOk \/ failStreak < MaxFailStreak
  /\ slot' = saveTodosToStorage(slot, list, writeOk)
  /\ failStreak' = IF writeOk THEN 0 ELSE failStreak + 1

\* mutant: the effect of the first render makes no setItem call
MountEffect_NoWrite ==
  /\ effectPending
  /\ effectPending' = FALSE
  /\ last' = Called("mount", last.arg)
  /\ UNCHANGED <<slot, failStreak, mounted, theme, todos, newText, editingId,
                 editingText, nextId>>

\* the persist effect of the first render
MountEffect ==
  \E writeOk \in BOOLEAN :
    /\ effectPending
    /\ PersistEffect(todos, writeOk)
    /\ effectPending' = FALSE
    /\ last' = Called("mount", last.arg)
    /\ UNCHANGED <<mounted, theme, todos, newText, editingId, editingText,
                   nextId>>

(***************************************************************************)
(* Event handlers.                                                         *)
(***************************************************************************)
\* onChange of the add field (line 162)
ChangeNewText ==
  \E s \in InputStrings :
    /\ mounted /\ ~effectPending
    /\ newText' = Str(s)
    /\ last' = Called("change", Null)
    /\ UNCHANGED <<slot, mounted, effectPending, theme, todos, editingId, editingText,
                   nextId, failStreak>>

\* mutant: the new item is put behind the others
Prepended_Appends(list, id, text, now) ==
  list \o <<[id |-> id, text |-> text, createdAt |-> Num(now)]>>

\* the list setTodos builds in addTodo (line 84-87)
Prepended(list, id, text, now) ==
  <<[id |-> id, text |-> text, createdAt |-> Num(now)]>> \o list

\* mutant: a rejected input is wiped from the add field
AddRejected_ClearsField ==
  /\ newText' = EmptyStr
  /\ UNCHANGED <<slot, mounted, effectPending, theme, todos, editingId, editingText,
                 nextId, failStreak>>

\* if (!text) return;  (line 82)
AddRejected ==
  UNCHANGED <<slot, mounted, effectPending, theme, todos, newText, editingId, editingText,
              nextId, failStreak>>

addTodo ==
  \E now \in Times, writeOk \in BOOLEAN :
    /\ mounted /\ ~effectPending
    /\ last' = Called("addTodo", Null)
    /\ LET text == Trim(newText) IN
       IF ~Truthy(text)
       THEN writeOk /\ AddRejected
       ELSE /\ Len(todos) < MaxTodos
            /\ nextId < MaxGen
            /\ todos' = Prepended(todos, cryptoRandomId(nextId + 1), text, now)
            /\ newText' = EmptyStr
            /\ nextId' = nextId + 1
            /\ PersistEffect(todos', writeOk)
            /\ UNCHANGED <<mounted, effectPending, theme, editingId, editingText>>

\* mutant: switching rows first writes the buffer into the row being left
startEdit_CommitsPrevious ==
  \E i \in 1..Len(todos) :
    /\ mounted /\ ~effectPending
    /\ editingId' = todos[i].id
    /\ editingText' = todos[i].text
    /\ last' = Called("startEdit", [id |-> todos[i].id, from |-> editingId])
    /\ todos' = IF Truthy(Trim(editingText))
                THEN [k \in 1..Len(todos) |->
                        IF todos[k].id = editingId
                        THEN [todos[k] EXCEPT !.text = Trim(editingText)]
                        ELSE todos[k]]
                ELSE todos
    /\ UNCHANGED <<slot, mounted, effectPending, theme, newText, nextId, failStreak>>

startEdit ==
  \E i \in 1..Len(todos) :
    /\ mounted /\ ~effectPending
    /\ editingId' = todos[i].id
    /\ editingText' = todos[i].text
    /\ last' = Called("startEdit", [id |-> todos[i].id, from |-> editingId])
    /\ UNCHANGED <<slot, mounted, effectPending, theme, todos, newText, nextId,
                   failStreak>>

\* a row is rendered with the edit field (line 178)
IsEditing(t) == editingId = t.id

\* onChange of the edit field (line 192)
ChangeEditingText ==
  \E s \in InputStrings :
    /\ mounted /\ ~effectPending
    /\ \E i \in 1..Len(todos) : IsEditing(todos[i])
    /\ editingText' = Str(s)
    /\ last' = Called("change", Null)
    /\ UNCHANGED <<slot, mounted, effectPending, theme, todos, newText, editingId,
                   nextId, failStreak>>

\* mutant: leaving edit mode runs the persist effect
cancelEdit_Persists ==
  \E writeOk \in BOOLEAN :
    /\ mounted /\ ~effectPending
    /\ editingId' = Null
    /\ editingText' = EmptyStr
    /\ last' = Called("cancelEdit", editingId)
    /\ PersistEffect(todos, writeOk)
    /\ UNCHANGED <<mounted, effectPending, theme, todos, newText, nextId>>

cancelEdit ==
  /\ mounted /\ ~effectPending
  /\ editingId' = Null
  /\ editingText' = EmptyStr
  /\ last' = Called("cancelEdit", editingId)
  /\ UNCHANGED <<slot, mounted, effectPending, theme, todos, newText, nextId,
                 failStreak>>

\* mutant: the id is not compared
Retexted_All(list, id, next) ==
  [i \in 1..Len(list) |-> [list[i] EXCEPT !.text = next]]

\* prev.map((t) => (t.id === id ? { ...t, text: next } : t))
Retexted(list, id, next) ==
  [i \in 1..Len(list) |->
     IF list[i].id = id THEN [list[i] EXCEPT !.text = next] ELSE list[i]]

\* mutant: a rejected buffer closes edit mode
SaveRejected_ClosesEdit ==
  /\ editingId' = Null
  /\ editingText' = EmptyStr
  /\ UNCHANGED <<slot, mounted, effectPending, theme, todos, newText, nextId, failStreak>>

\* if (!next) return;  (line 106)
SaveRejected ==
  UNCHANGED <<slot, mounted, effectPending, theme, todos, newText, editingId, editingText,
              nextId, failStreak>>

saveEdit ==
  \E id \in TargetIds(todos), writeOk \in BOOLEAN :
    /\ mounted /\ ~effectPending
    /\ last' = Called("saveEdit", id)
    /\ LET next == Trim(editingText) IN
       IF ~Truthy(next)
       THEN writeOk /\ SaveRejected
       ELSE /\ todos' = Retexted(todos, id, next)
            /\ editingId' = Null
            /\ editingText' = EmptyStr
            /\ PersistEffect(todos', writeOk)
            /\ UNCHANGED <<mounted, effectPending, theme, newText, nextId>>

\* prev.filter((t) => t.id !== id)
Without(list, id) ==
  LET Keep(t) == t.id # id IN SelectSeq(list, Keep)

\* mutant: deleting the edit target leaves edit mode as it is
deleteTodo_KeepsTarget ==
  \E id \in TargetIds(todos), writeOk \in BOOLEAN :
    /\ mounted /\ ~effectPending
    /\ last' = Called("deleteTodo", id)
    /\ todos' = Without(todos, id)
    /\ PersistEffect(todos', writeOk)
    /\ UNCHANGED <<mounted, effectPending, theme, newText, nextId, editingId, editingText>>

deleteTodo ==
  \E id \in TargetIds(todos), writeOk \in BOOLEAN :
    /\ mounted /\ ~effectPending
    /\ last' = Called("deleteTodo", id)
    /\ todos' = Without(todos, id)
    /\ IF editingId = id
       THEN editingId' = Null /\ editingText' = EmptyStr
       ELSE UNCHANGED <<editingId, editingText>>
    /\ PersistEffect(todos', writeOk)
    /\ UNCHANGED <<mounted, effectPending, theme, newText, nextId>>

\* mutant: the toggle only ever switches to dark
Flipped_Stuck(prevTheme) == "dark"

Flipped(prevTheme) == IF prevTheme = "light" THEN "dark" ELSE "light"

toggleTheme ==
  /\ mounted /\ ~effectPending
  /\ theme' = Flipped(theme)
  /\ last' = Called("toggleTheme", Null)
  /\ UNCHANGED <<slot, mounted, effectPending, todos, newText, editingId, editingText,
                 nextId, failStreak>>

(***************************************************************************)
(* What App renders (line 127-246), as far as it depends on the state.     *)
(***************************************************************************)
\* a number as React writes it into the text of an element
RECURSIVE Decimal(_)
Decimal(n) ==
  IF n < 10 THEN <<Digits[n + 1]>>
  ELSE Decimal(n \div 10) \o <<Digits[(n % 10) + 1]>>

remainingCount == Len(todos)

\* {remainingCount} item{remainingCount === 1 ? '' : 's'}
\* mutant: no plural for an empty list
CountLabel_SingularZero(n) ==
  Decimal(n) \o <<" ", "i", "t", "e", "m">> \o (IF n <= 1 THEN << >> ELSE <<"s">>)

CountLabel(n) ==
  Decimal(n) \o <<" ", "i", "t", "e", "m">> \o (IF n = 1 THEN << >> ELSE <<"s">>)

\* one <li>: the edit field with Save/Cancel, or the text with Edit/Delete
Row(t) ==
  IF IsEditing(t)
  THEN [key |-> t.id, field |-> editingText, actions |-> {"Save", "Cancel"}]
  ELSE [key |-> t.id, text |-> t.text, actions |-> {"Edit", "Delete"}]

\* todos.length === 0 ? <div role="status"> : <ul>
Rendered ==
  [count |-> CountLabel(remainingCount),
   body |-> IF Len(todos) = 0
            THEN [status |-> "No todos yet. Add one above."]
            ELSE [list |-> [i \in 1..Len(todos) |-> Row(todos[i])]]]

Next ==
  \/ Reload
  \/ MountEffect
  \/ ChangeNewText
  \/ addTodo
  \/ startEdit
  \/ ChangeEditingText
  \/ cancelEdit
  \/ saveEdit
  \/ deleteTodo
  \/ toggleTheme

Spec == Init /\ [][Next]_vars

TypeOK ==
  /\ mounted \in BOOLEAN
  /\ effectPending \in BOOLEAN
  /\ theme \in {"light", "dark"}
  /\ nextId \in 0..MaxGen
  /\ Len(todos) <= MaxTodos
  /\ \A i \in 1..Len(todos) :
       /\ TypeOf(todos[i].id) = "string"
       /\ TypeOf(todos[i].text) = "string"
       /\ TypeOf(todos[i].createdAt) = "number"
  /\ TypeOf(newText) = "string"
  /\ TypeOf(editingText) = "string"

(***************************************************************************)
(* Save followed by Load on its own: saveTodosToStorage is called with an  *)
(* arbitrary list of items and loadTodosFromStorage reads the slot back.   *)
(***************************************************************************)
ItemPool ==
  {[id |-> Str(i), text |-> Str(x), createdAt |-> c] :
     i \in {<<"a">>, <<"b">>},
     x \in {<<"x">>, <<" ", "x">>, <<"\t">>, << >>},
     c \in {Num(5), Sci(5, -324), Infinity}}

ItemLists == {<< >>} \cup {<<p>> : p \in ItemPool} \cup (ItemPool \X ItemPool)

InitRT ==
  /\ todos \in ItemLists
  /\ slot = Missing
  /\ mounted = FALSE
  /\ theme = "light"
  /\ newText = EmptyStr
  /\ editingId = Null
  /\ editingText = EmptyStr
  /\ nextId = 0
  /\ failStreak = 0
  /\ effectPending = FALSE
  /\ last = Called("list", todos)

Save ==
  /\ last.op = "list"
  /\ slot' = saveTodosToStorage(slot, todos, TRUE)
  /\ last' = Called("save", last.arg)
  /\ UNCHANGED <<mounted, effectPending, theme, todos, newText, editingId, editingText,
                 nextId, failStreak>>

Load ==
  \E now \in [1..Len(todos) -> Times] :
    /\ last.op = "save"
    /\ todos' = loadTodosFromStorage(slot, TRUE, nextId, now).val
    /\ nextId' = nextId + LoadIdsUsed(slot, TRUE)
    /\ last' = Called("load", last.arg)
    /\ UNCHANGED <<slot, mounted, effectPending, theme, newText, editingId, editingText,
                   failStreak>>

NextRT == Save \/ Load

SpecRT == InitRT /\ [][NextRT]_vars

(***************************************************************************)
(* Properties.                                                             *)
(***************************************************************************)
Indices(list) == 1..Len(list)

IsBlank(v) == \A i \in 1..Len(v.s) : v.s[i] \in WhiteSpace

Serialized(list) == Doc(JSONstringify(TodosValue(list)))

\* C1: every item of the in-memory list has a text that is non-empty and
\* equal to its trimmed form, whatever the slot held at mount.
C1_TextsTrimmed ==
  mounted =>
    \A i \in Indices(todos) :
      /\ Len(todos[i].text.s) > 0
      /\ todos[i].text.s[1] \notin WhiteSpace
      /\ todos[i].text.s[Len(todos[i].text.s)] \notin WhiteSpace

\* C2: no two items of the in-memory list have the same id, whatever the
\* slot held at mount.
C2_IdsUnique ==
  mounted =>
    \A i, j \in Indices(todos) : i # j => todos[i].id # todos[j].id

\* C3: once the persist effect has run and its latest write succeeded, the slot
\* holds the serialization of the current list, never that of an older one:
\* every mutation is followed by a write of exactly the list it produced.
C3_WriteReflectsSnapshot ==
  (mounted /\ ~effectPending /\ failStreak = 0) => slot = Serialized(todos)

C3_Witness ==
  /\ mounted
  /\ failStreak = 0
  /\ last.op = "saveEdit"
  /\ editingId = Null
  /\ Len(todos) = 2
  /\ todos[1].text = Str(<<"y">>)
  /\ todos[2].text = Str(<<"x">>)
  /\ slot = Serialized(todos)

\* C4: Save(list) followed by Load() yields, in the same order, exactly the
\* items of list whose trimmed text is non-empty, each with identical id,
\* text and createdAt.
C4_RoundTrip ==
  last.op = "load" =>
    todos = SelectSeq(last.arg, LAMBDA t : ~IsBlank(t.text))

\* C5 (as amended): Load never raises and returns the empty list when the
\* slot is missing, cannot be read, holds no valid JSON, holds a JSON value
\* that is no sequence, or holds a sequence none of whose entries is an
\* object; mounting succeeds for every slot content.
NotASequence(raw) == raw.raw = "json" /\ raw.doc.j # "array"

NoObjectEntries(raw) ==
  /\ raw.raw = "json"
  /\ raw.doc.j = "array"
  /\ \A i \in 1..Len(raw.doc.items) : raw.doc.items[i].j # "object"

SomeNonObjectEntry(raw) ==
  /\ raw.raw = "json"
  /\ raw.doc.j = "array"
  /\ \E i \in 1..Len(raw.doc.items) : raw.doc.items[i].j # "object"

Undecodable(raw) == raw \in {Missing, ReadThrew, EmptyText, Garbage}

C5_LoadYieldsEmpty ==
  last.op \in {"render", "mount"} =>
    /\ mounted
    /\ (Undecodable(last.arg) \/ NotASequence(last.arg)
          \/ NoObjectEntries(last.arg)) => todos = << >>

C5_Witness ==
  /\ last.op = "mount"
  /\ mounted
  /\ last.arg = Doc(JArray(<<JNull, JNumber(5, 0)>>))
  /\ todos = << >>

\* C5 as stated: the empty list also for a sequence that contains non-object
\* entries.
C5_Original ==
  last.op \in {"render", "mount"} =>
    /\ mounted
    /\ (Undecodable(last.arg) \/ NotASequence(last.arg)
          \/ SomeNonObjectEntry(last.arg)) => todos = << >>

\* C6: Delete(id) removes exactly one item, the one whose id matches, and
\* leaves the others as they were and in their order; with no such item the
\* list is unchanged; if id is the edit target, edit mode is cleared.
Occurrences(list, id) == {i \in Indices(list) : list[i].id = id}

C6_DeleteExactlyOne ==
  [][last'.op = "deleteTodo" =>
       /\ Len(todos') =
            IF Occurrences(todos, last'.arg) = {} THEN Len(todos)
            ELSE Len(todos) - 1
       /\ todos' = SelectSeq(todos, LAMBDA t : t.id # last'.arg)
       /\ editingId = last'.arg => (editingId' = Null /\ editingText' = EmptyStr)
    ]_vars

\* C7: each Add whose input is not blank puts a new item with the trimmed
\* text at index 1 and keeps the earlier items behind it in their order, so
\* the length grows by one; an Add with a blank input leaves the list as is.
C7_AddPrepends ==
  [][last'.op = "addTodo" =>
       IF IsBlank(newText) THEN todos' = todos
       ELSE /\ Len(todos') = Len(todos) + 1
            /\ Tail(todos') = todos
            /\ todos'[1].text.s # << >>
            /\ \E a, b \in 1..Len(newText.s) :
                 /\ todos'[1].text.s = SubSeq(newText.s, a, b)
                 /\ \A i \in 1..(a - 1) : newText.s[i] \in WhiteSpace
                 /\ \A i \in (b + 1)..Len(newText.s) :
                      newText.s[i] \in WhiteSpace
                 /\ newText.s[a] \notin WhiteSpace
                 /\ newText.s[b] \notin WhiteSpace
    ]_vars

C7_Witness ==
  /\ last.op = "addTodo"
  /\ Len(todos) = 3
  /\ todos[1].id = cryptoRandomId(2)
  /\ todos[1].text = Str(<<"y">>)
  /\ todos[2].id = cryptoRandomId(1)
  /\ todos[3].id = Str(<<"a">>)

\* C8: Add with a blank input leaves the list, the add field, the edit
\* target and the edit buffer unchanged.
C8_BlankAddChangesNothing ==
  [][(last'.op = "addTodo" /\ IsBlank(newText)) =>
       UNCHANGED <<todos, newText, editingId, editingText>>
    ]_vars

C8_Witness ==
  /\ last.op = "addTodo"
  /\ newText = Str(<<"\t">>)
  /\ Len(todos) > 0

\* C9: CommitEdit with a blank edit buffer leaves the list unchanged and
\* keeps edit mode open, with the same target and the untrimmed buffer.
C9_BlankCommitKeepsEditing ==
  [][(last'.op = "saveEdit" /\ IsBlank(editingText)) =>
       UNCHANGED <<todos, editingId, editingText>>
    ]_vars

C9_Witness ==
  /\ last.op = "saveEdit"
  /\ editingText = Str(<<"\t">>)
  /\ \E i \in Indices(todos) : todos[i].id = editingId /\ last.arg = editingId

\* C10: CommitEdit(id) with a buffer that is not blank gives every item with
\* that id the trimmed buffer as its text, at the same position and with the
\* same id and createdAt, leaves the items with another id unchanged, and
\* exits edit mode with an empty buffer; no handler other than CommitEdit
\* changes the text of an item.
TrimmedOf(v) ==
  CHOOSE s \in {SubSeq(v.s, a, b) : a \in 1..Len(v.s), b \in 1..Len(v.s)} :
    /\ s # << >>
    /\ s[1] \notin WhiteSpace
    /\ s[Len(s)] \notin WhiteSpace
    /\ \E a, b \in 1..Len(v.s) :
         /\ s = SubSeq(v.s, a, b)
         /\ \A i \in 1..(a - 1) : v.s[i] \in WhiteSpace
         /\ \A i \in (b + 1)..Len(v.s) : v.s[i] \in WhiteSpace

C10_CommitEditRetexts ==
  [][/\ (last'.op = "saveEdit" /\ ~IsBlank(editingText)) =>
          /\ Len(todos') = Len(todos)
          /\ \A i \in Indices(todos) :
               /\ todos'[i].id = todos[i].id
               /\ todos'[i].createdAt = todos[i].createdAt
               /\ todos'[i].text =
                    IF todos[i].id = last'.arg THEN Str(TrimmedOf(editingText))
                    ELSE todos[i].text
          /\ editingId' = Null
          /\ editingText' = EmptyStr
     /\ last'.op \notin {"saveEdit", "render"} =>
          \A j \in Indices(todos') :
            \/ \E i \in Indices(todos) : todos'[j] = todos[i]
            \/ last'.op = "addTodo" /\ j = 1
    ]_vars

C10_Witness ==
  /\ last.op = "saveEdit"
  /\ last.arg = Str(<<"a">>)
  /\ editingId = Null
  /\ Len(todos) = 2
  /\ todos[1].id = cryptoRandomId(1)
  /\ todos[1].text = Str(<<"x">>)
  /\ todos[2] = [id |-> Str(<<"a">>), text |-> Str(<<"y">>), createdAt |-> Infinity]

\* C11: a setItem call that throws raises nothing (the component stays
\* mounted), is made once and leaves the slot as it was, and the handler has
\* the same effect on the list, the edit target, the edit buffer and the add
\* field as with a write that succeeds; Add, CommitEdit and Delete issued
\* after a failed write still take effect in memory.
C11_WriteFailureSwallowed ==
  [][/\ failStreak' > failStreak =>
          /\ last'.op \in {"mount", "addTodo", "saveEdit", "deleteTodo"}
          /\ failStreak' = failStreak + 1
          /\ mounted'
          /\ slot' = slot
     /\ (failStreak' > failStreak \/ failStreak > 0) =>
          /\ (last'.op = "addTodo" /\ ~IsBlank(newText)) =>
               /\ Len(todos') = Len(todos) + 1
               /\ Tail(todos') = todos
               /\ todos'[1].text = Str(TrimmedOf(newText))
               /\ newText' = EmptyStr
               /\ UNCHANGED <<editingId, editingText>>
          /\ (last'.op = "saveEdit" /\ ~IsBlank(editingText)) =>
               /\ todos' = [i \in Indices(todos) |->
                              IF todos[i].id = last'.arg
                              THEN [todos[i] EXCEPT
                                      !.text = Str(TrimmedOf(editingText))]
                              ELSE todos[i]]
               /\ editingId' = Null
               /\ editingText' = EmptyStr
               /\ newText' = newText
          /\ last'.op = "deleteTodo" =>
               /\ todos' = SelectSeq(todos, LAMBDA t : t.id # last'.arg)
               /\ editingId' = IF editingId = last'.arg THEN Null ELSE editingId
               /\ editingText' =
                    IF editingId = last'.arg THEN EmptyStr ELSE editingText
               /\ newText' = newText
    ]_vars

C11_Witness ==
  /\ mounted
  /\ failStreak = 1
  /\ last.op = "addTodo"
  /\ Len(todos) = 2
  /\ todos[1].id = cryptoRandomId(1)
  /\ todos[1].text = Str(<<"y">>)
  /\ newText = EmptyStr
  /\ slot = Serialized(Tail(todos))

\* the entries of a stored sequence that are JSON objects, in stored order,
\* and those of them whose text member is a string that is not blank
StoredRecords(raw) == SelectSeq(raw.doc.items, LAMBDA e : e.j = "object")

HasMember(e, k, kind) == k \in DOMAIN e.members /\ e.members[k].j = kind

KeptRecords(raw) ==
  SelectSeq(StoredRecords(raw),
            LAMBDA e : HasMember(e, "text", "string") /\ ~IsBlank(e.members.text))

\* C12: when the slot holds a sequence, the mounted list consists, in stored
\* order, of the object entries whose text is a non-blank string; each keeps
\* its text, keeps its id if that is a string and otherwise gets a generated
\* id no other item has, keeps its createdAt if that is a number and
\* otherwise gets the current time; the other entries do not affect them.
C12_LoadRepairs ==
  (last.op \in {"render", "mount"} /\ last.arg.raw = "json"
     /\ last.arg.doc.j = "array") =>
    LET kept == KeptRecords(last.arg) IN
    /\ Len(todos) = Len(kept)
    /\ \A i \in Indices(todos) :
         /\ todos[i].text = Str(kept[i].members.text.s)
         /\ IF HasMember(kept[i], "id", "string")
            THEN todos[i].id = Str(kept[i].members.id.s)
            ELSE /\ \E n \in 1..MaxGen : todos[i].id = cryptoRandomId(n)
                 /\ \A j \in Indices(todos) : j # i => todos[j].id # todos[i].id
         /\ IF HasMember(kept[i], "createdAt", "number")
            THEN todos[i].createdAt = JSONparse(kept[i].members.createdAt)
            ELSE \E t \in Times : todos[i].createdAt = Num(t)

C12_Witness ==
  /\ last.op = "mount"
  /\ last.arg = Doc(JArray(<<MakeObject(JNumber(7, 0), JString(<<"x">>), Absent),
                             MakeObject(JString(<<"a">>), JString(<<"U+00A0">>),
                                        JNumber(5, 0))>>))
  /\ todos = <<[id |-> cryptoRandomId(1), text |-> Str(<<"x">>),
                createdAt |-> Num(1)]>>

\* C13: CancelEdit sets the edit target to none and empties the edit buffer;
\* the list keeps every item with its id, text, createdAt and position; no
\* setItem call is made: the slot and the count of failed writes stay as
\* they were, also where the slot is out of date.
C13_CancelEditFrame ==
  [][last'.op = "cancelEdit" =>
       /\ editingId' = Null
       /\ editingText' = EmptyStr
       /\ Len(todos') = Len(todos)
       /\ \A i \in Indices(todos) :
            /\ todos'[i].id = todos[i].id
            /\ todos'[i].text = todos[i].text
            /\ todos'[i].createdAt = todos[i].createdAt
       /\ slot' = slot
       /\ failStreak' = failStreak
    ]_vars

C13_Witness ==
  /\ last.op = "cancelEdit"
  /\ last.arg # Null
  /\ \E i \in Indices(todos) : todos[i].id = last.arg
  /\ editingId = Null
  /\ editingText = EmptyStr
  /\ failStreak = 1
  /\ slot # Serialized(todos)

\* C14: the theme is light after every mount; a toggle turns light into dark
\* and dark into light, so two toggles in a row give the value back; a
\* toggle makes no setItem call (the slot and the count of failed writes
\* stay, also where the slot is out of date) and leaves the list, the edit
\* target and both input buffers unchanged.
C14_ThemeToggle ==
  /\ theme = "light"
  /\ [][/\ last'.op = "render" => theme' = "light"
        /\ last'.op = "toggleTheme" =>
             /\ theme' = (IF theme = "dark" THEN "light" ELSE "dark")
             /\ theme \in {"light", "dark"}
             /\ slot' = slot
             /\ failStreak' = failStreak
             /\ UNCHANGED <<todos, editingId, editingText, newText>>
       ]_vars

\* reached by a toggle from dark, which an earlier toggle had set
C14_Witness ==
  /\ last.op = "toggleTheme"
  /\ theme = "light"
  /\ failStreak = 1
  /\ slot # Serialized(todos)
  /\ editingId # Null
  /\ newText # EmptyStr

\* C15: whatever the slot held at mount, at most one row is rendered with the
\* edit field; a row has the edit field with Save/Cancel exactly when the id
\* of its item is the edit target, and the other rows have their text with
\* Edit/Delete.
EditRows == {i \in Indices(todos) : "Save" \in Rendered.body.list[i].actions}

C15_AtMostOneEditRow ==
  (mounted /\ Len(todos) > 0) =>
    /\ Cardinality(EditRows) <= 1
    /\ \A i \in Indices(todos) :
         IF todos[i].id = editingId
         THEN /\ Rendered.body.list[i].actions = {"Save", "Cancel"}
              /\ Rendered.body.list[i].field = editingText
         ELSE /\ Rendered.body.list[i].actions = {"Edit", "Delete"}
              /\ Rendered.body.list[i].text = todos[i].text

\* C16: the count label is the length of the list in decimal followed by
\* " item" when the length is 1 and by " items" otherwise, 0 included; the
\* status message is rendered instead of the list exactly when the list is
\* empty, and the list is rendered with one row per item otherwise.
C16_CountLabelAndEmptyState ==
  mounted =>
    /\ Rendered.count =
         <<Digits[Len(todos) + 1]>> \o
           (IF Len(todos) = 1 THEN <<" ", "i", "t", "e", "m">>
            ELSE <<" ", "i", "t", "e", "m", "s">>)
    /\ ("status" \in DOMAIN Rendered.body) <=> (Len(todos) = 0)
    /\ ("list" \in DOMAIN Rendered.body) <=> (Len(todos) # 0)
    /\ Len(todos) # 0 => Len(Rendered.body.list) = Len(todos)

C16_Witness ==
  /\ mounted
  /\ last.op = "deleteTodo"
  /\ Len(todos) = 1
  /\ Rendered.count = <<"1", " ", "i", "t", "e", "m">>
  /\ DOMAIN Rendered.body = {"list"}

\* C17: when the persist effect has run and the latest write went through (as
\* it has when every write did), a reload that can read the slot yields the list held just before it, item
\* by item with the same id, text and createdAt in the same order, and the
\* edit target is none, both buffers are empty and the theme is light.
C17_ReloadRestores ==
  [][(last'.op = "render" /\ ~effectPending /\ failStreak = 0
        /\ last'.arg # ReadThrew) =>
       /\ Len(todos') = Len(todos)
       /\ \A i \in Indices(todos) :
            /\ todos'[i].id = todos[i].id
            /\ todos'[i].text = todos[i].text
            /\ todos'[i].createdAt = todos[i].createdAt
       /\ editingId' = Null
       /\ editingText' = EmptyStr
       /\ newText' = EmptyStr
       /\ theme' = "light"
    ]_vars

\* C18: the edit target is none or the id of an item of the list: startEdit
\* takes the id of a rendered item, deleteTodo clears the target it removes,
\* and no handler removes the targeted item and keeps the target.
C18_EditTargetInList ==
  mounted =>
    (editingId = Null \/ \E i \in Indices(todos) : todos[i].id = editingId)

\* another item was deleted while the target stayed in edit mode
C18_Witness ==
  /\ mounted
  /\ last.op = "deleteTodo"
  /\ last.arg = Str(<<"a">>)
  /\ editingId = cryptoRandomId(1)
  /\ Len(todos) = 1
  /\ todos[1].id = editingId

\* an entry of a stored sequence that Load keeps without repairing it
WellFormedEntry(e) ==
  /\ e.j = "object"
  /\ HasMember(e, "id", "string")
  /\ HasMember(e, "text", "string")
  /\ ~IsBlank(e.members.text)
  /\ HasMember(e, "createdAt", "number")

SomeMalformedEntry(raw) ==
  /\ raw.raw = "json"
  /\ raw.doc.j = "array"
  /\ \E i \in 1..Len(raw.doc.items) : ~WellFormedEntry(raw.doc.items[i])

\* C19: right after a mount whose write went through, the slot holds the
\* serialization of the list Load returned, the empty sequence if that list
\* is empty; a slot that held undecodable data, a value that is no sequence
\* or a malformed entry no longer holds its previous content.
C19_MountWrites ==
  (last.op = "mount" /\ failStreak = 0) =>
    /\ slot = Doc(JSONstringify(TodosValue(todos)))
    /\ todos = << >> => slot = Doc(JArray(<< >>))
    /\ (Undecodable(last.arg) \/ NotASequence(last.arg)
          \/ SomeMalformedEntry(last.arg)) => slot # last.arg

C19_Witness ==
  /\ last.op = "mount"
  /\ failStreak = 0
  /\ last.arg = Doc(JArray(<<MakeObject(JNumber(7, 0), JString(<<"x">>), Absent),
                             JNull>>))
  /\ slot = Doc(JArray(<<MakeObject(JString(<<"u", "1">>), JString(<<"x">>),
                                    JNumber(1, 0))>>))

\* C20: startEdit on item B while another item A is the edit target makes B
\* the edit target and B's text the edit buffer; what was typed for A is
\* dropped and not written into A: the list is unchanged; no setItem call is
\* made (the slot and the count of failed writes stay as they were).
C20_BeginEditSwitches ==
  [][(last'.op = "startEdit" /\ editingId # Null
        /\ editingId # last'.arg.id) =>
       /\ editingId' = last'.arg.id
       /\ \E i \in Indices(todos) :
            todos[i].id = last'.arg.id /\ editingText' = todos[i].text
       /\ todos' = todos
       /\ newText' = newText
       /\ slot' = slot
       /\ failStreak' = failStreak
    ]_vars

C20_Witness ==
  /\ last.op = "startEdit"
  /\ last.arg.from = Str(<<"a">>)
  /\ last.arg.id = cryptoRandomId(1)
  /\ editingId = cryptoRandomId(1)
  /\ editingText = Str(<<"y">>)
  /\ Len(todos) = 2
  /\ todos[1] = [id |-> cryptoRandomId(1), text |-> Str(<<"y">>),
                 createdAt |-> Num(1)]
  /\ todos[2].id = Str(<<"a">>)
  /\ failStreak = 1
  /\ slot # Serialized(todos)

=============================================================================
